---- MODULE Spec2Model ----
(***************************************************************************)
(* The paginated feed of Kodi93/Site.                                      *)
(*                                                                         *)
(*   - tools/build.mjs: writeFeedData / buildFeedForMode partition the     *)
(*     catalog into numbered page artifacts per mode and renderHomePage    *)
(*     embeds the first page and a state blob per mode in the home page;   *)
(*   - public/assets/feed.js: initFeed builds one controller per page      *)
(*     load; queueLoad / loadPage fetch and merge further pages and        *)
(*     activateMode switches the mode shown in the shared list element.    *)
(*                                                                         *)
(* Strings are kept as strings.  A URL "<baseHref>/page-<n>.json" and the  *)
(* file public<baseHref>/page-<n>.json it is served from are both the pair *)
(* <<baseHref, n>>; the empty string used for "no next page" is NoUrl.     *)
(* A DOM element of the list is a record [cls, feedId]; innerHTML of the   *)
(* list is the sequence of its elements.                                   *)
(***************************************************************************)
EXTENDS Integers, Sequences, FiniteSets, TLC

(***************************************************************************)
(* Bounds of the model.                                                    *)
(***************************************************************************)
\* Longest catalog handed to a build of the builder's specification.
MaxItems == 4

\* Longest catalog published during a browser session.
MaxSessionItems == 5

\* Page capacity of the model.  tools/build.mjs sets FEED_PAGE_SIZE = 18;
\* the model scales it down so that catalogs of a few records span several
\* pages.
ScaledPageSize == 2

\* Number of rebuilds of the site during one browser session.
MaxRebuilds == 1

\* Calls of loadPage of the single-feed client that await a response at the
\* same time.
MaxNavCalls == 3

\* Largest page number a malformed page artifact reports.
MaxReportedPage == 3

(***************************************************************************)
(* Values.                                                                 *)
(***************************************************************************)
\* An absent object key (undefined).
NoKey == "<undefined>"

\* The empty string in the place of a URL.
NoUrl == <<>>

\* JavaScript truthiness of a string-or-undefined value.
Truthy(v) == v # NoKey /\ v # ""

\* value.trim() is empty.
Blank(v) == v \in {"", " "}

Min(a, b) == IF a <= b THEN a ELSE b

\* Array.prototype.slice(from, to) on a sequence (0-based, end exclusive).
Slice(s, from, to) == SubSeq(s, from + 1, Min(to, Len(s)))

\* Mutant of MathCeilDiv: Math.floor in the place of Math.ceil.
MathFloorDiv(n, d) == n \div d

\* Math.ceil(n / d) for n >= 0, d > 0.
MathCeilDiv(n, d) == IF n % d = 0 THEN n \div d ELSE (n \div d) + 1

(***************************************************************************)
(* tools/build.mjs                                                         *)
(***************************************************************************)
FEED_PAGE_SIZE == ScaledPageSize

FEED_MODES == <<"recent", "trending">>

ModeIds == {FEED_MODES[i] : i \in 1..Len(FEED_MODES)}

\* new Date().toISOString() at the successive readings of the clock during
\* one build: later than every timestamp of the catalog, never decreasing.
NowStamps == <<"n1", "n2", "n3", "n4", "n5", "n6", "n7", "n8">>

\* Date.parse on the timestamps of the model: "t1" < "t2" are valid ISO
\* dates of the catalog, the clock readings come after them, "bad" does not
\* parse.
DateParse(value) ==
  CASE value = "t1" -> 1
    [] value = "t2" -> 2
    [] \E k \in DOMAIN NowStamps : NowStamps[k] = value ->
         2 + (CHOOSE k \in DOMAIN NowStamps : NowStamps[k] = value)
    [] OTHER -> -1

parseTimestamp(value) ==
  IF ~Truthy(value) THEN 0
  ELSE IF DateParse(value) = -1 THEN 0 ELSE DateParse(value)

\* String.prototype.localeCompare on the titles of the model.
TitleRank(t) ==
  CASE t = "" -> 0
    [] t = " " -> 1
    [] t = "a" -> 2
    [] t = "b" -> 3
    [] OTHER -> 4

localeCompare(s, t) ==
  IF TitleRank(s) < TitleRank(t) THEN -1
  ELSE IF TitleRank(s) > TitleRank(t) THEN 1 ELSE 0

OrEmpty(v) == IF Truthy(v) THEN v ELSE ""

\* a || b on string-or-undefined values.
Or(a, b) == IF Truthy(a) THEN a ELSE b

\* item.updated_at || item.updatedAt
UpdatedOf(item) == Or(item.updated_at, item.updatedAt)

\* The comparator of FEED_MODES[recent].sort.
CompareRecent(a, b) ==
  LET diff == parseTimestamp(UpdatedOf(b)) - parseTimestamp(UpdatedOf(a))
  IN IF diff # 0 THEN diff
     ELSE localeCompare(OrEmpty(a.title), OrEmpty(b.title))

\* The comparator of FEED_MODES[trending].sort.
CompareTrending(a, b) ==
  LET reviewDiff == b.rating_count - a.rating_count
      ratingDiff == b.rating - a.rating
      updatedDiff == parseTimestamp(UpdatedOf(b)) - parseTimestamp(UpdatedOf(a))
  IN IF reviewDiff # 0 THEN reviewDiff
     ELSE IF ratingDiff # 0 THEN ratingDiff
     ELSE IF updatedDiff # 0 THEN updatedDiff
     ELSE localeCompare(OrEmpty(a.title), OrEmpty(b.title))

Compare(modeId, a, b) ==
  IF modeId = "recent" THEN CompareRecent(a, b) ELSE CompareTrending(a, b)

\* The least element of a non-empty set of positions, or `otherwise`.
FirstOf(positions, otherwise) ==
  IF positions = {} THEN otherwise
  ELSE CHOOSE i \in positions : \A j \in positions : i <= j

InsertAt(s, k, x) == SubSeq(s, 1, k - 1) \o <<x>> \o SubSeq(s, k, Len(s))

\* Array.prototype.sort is stable: an element goes before the first element
\* of the sorted prefix that the comparator puts after it.
InsertSorted(modeId, x, s) ==
  InsertAt(s,
           FirstOf({i \in 1..Len(s) : Compare(modeId, s[i], x) > 0},
                   Len(s) + 1),
           x)

RECURSIVE SortItems(_, _)
SortItems(modeId, items) ==
  IF items = <<>> THEN <<>>
  ELSE InsertSorted(modeId, items[Len(items)],
                    SortItems(modeId, SubSeq(items, 1, Len(items) - 1)))

\* mode.sort(items): items.slice().sort(comparator).
ModeSort(modeId, items) == SortItems(modeId, items)

\* compactObject drops undefined, null and blank-string values.
compactValue(v) == IF v = NoKey \/ Blank(v) THEN NoKey ELSE v

\* The keys of a feed entry that the feed protocol reads (price, brand and
\* category are carried along and never read by the paging code).
toFeedEntry(item) ==
  [id |-> compactValue(item.id),
   title |-> compactValue(item.title),
   url |-> compactValue(item.url),
   image |-> compactValue(item.image),
   updatedAt |-> compactValue(UpdatedOf(item))]

\* String(value || "").trim() on the strings of the model.
Trim(v) == IF ~Truthy(v) \/ Blank(v) THEN "" ELSE v

\* hash(value) of tools/util.mjs: a non-empty digest of the value.
hash(v) == IF v = "u" THEN "#u" ELSE "#"

\* The id prepareProduct gives a record.
ProductId(raw) ==
  IF Trim(raw.id) # "" THEN Trim(raw.id)
  ELSE hash(IF Trim(raw.url) # "" THEN Trim(raw.url) ELSE Trim(raw.title))

\* Mutant of prepareProduct: no string is trimmed and no record is dropped.
prepareProductUntrimmed(raw, now) ==
  <<[id |-> raw.id,
     title |-> raw.title,
     url |-> raw.url,
     image |-> raw.image,
     updated_at |-> raw.updated_at,
     updatedAt |-> Or(raw.updated_at, now),
     rating_count |-> raw.rating_count,
     rating |-> IF raw.rating > 0 THEN raw.rating ELSE 0]>>

\* prepareProduct(raw), `now` being new Date().toISOString() when it runs:
\* <<>> (null) for a record without title, url or image, else the one
\* product.  A rating that is not a positive number becomes null, which the
\* comparators read as 0.
prepareProduct(raw, now) ==
  IF Trim(raw.title) = "" \/ Trim(raw.url) = "" \/ Trim(raw.image) = ""
  THEN <<>>
  ELSE <<[id |-> ProductId(raw),
          title |-> Trim(raw.title),
          url |-> Trim(raw.url),
          image |-> Trim(raw.image),
          updated_at |-> raw.updated_at,
          updatedAt |-> Or(raw.updated_at, now),
          rating_count |-> raw.rating_count,
          rating |-> IF raw.rating > 0 THEN raw.rating ELSE 0]>>

\* The clock reading while record k of the catalog is prepared: the clock
\* either moves on between two records or shows the same instant to all.
NowAt(k, ticks) == IF ticks THEN NowStamps[k] ELSE NowStamps[1]

\* main: rawItems.map(prepareProduct).filter(item && item.title && item.url),
\* from record k on.
RECURSIVE PrepareFrom(_, _, _)
PrepareFrom(rawItems, k, ticks) ==
  IF k > Len(rawItems) THEN <<>>
  ELSE prepareProduct(rawItems[k], NowAt(k, ticks))
         \o PrepareFrom(rawItems, k + 1, ticks)

PrepareAll(rawItems, ticks) == PrepareFrom(rawItems, 1, ticks)

\* The filter of buildFeedForMode: item && item.image && item.url && item.title.
FeedFilter(item) == Truthy(item.image) /\ Truthy(item.url) /\ Truthy(item.title)

FilterSeq(s) == SelectSeq(s, FeedFilter)

MapFeedEntries(s) == [i \in 1..Len(s) |-> toFeedEntry(s[i])]

PageHref(baseHref, page) == <<baseHref, page>>

\* writeFile(target, content) on a directory tree kept as a function from
\* path to content.
writeFile(fs, target, content) ==
  [p \in (DOMAIN fs) \cup {target} |-> IF p = target THEN content ELSE fs[p]]

\* Mutant of rmSyncFeedDir: the directory is not cleared.
rmSyncSkipped(fs) == fs

\* fs.rmSync(FEED_DIR, {recursive: true, force: true}).
rmSyncFeedDir(fs) == <<>>

\* Mutant of PageSlice: the slice ends one entry early.
PageSliceShort(feedItems, index) ==
  Slice(feedItems, index, index + FEED_PAGE_SIZE - 1)

\* Mutant of PageSlice: the slice ends one entry late.
PageSliceLong(feedItems, index) ==
  Slice(feedItems, index, index + FEED_PAGE_SIZE + 1)

\* feedItems.slice(index, index + FEED_PAGE_SIZE)
PageSlice(feedItems, index) == Slice(feedItems, index, index + FEED_PAGE_SIZE)

\* One pass of the loop of buildFeedForMode: page file and manifest pointer
\* of the slice that starts at `index`.
WritePage(st, feedItems, index, page, href, totalPages) ==
  [fs |-> writeFile(st.fs, href,
                    [page |-> page,
                     pageSize |-> FEED_PAGE_SIZE,
                     totalPages |-> totalPages,
                     totalItems |-> Len(feedItems),
                     items |-> PageSlice(feedItems, index)]),
   pages |-> Append(st.pages, [page |-> page, href |-> href])]

\* The loop of buildFeedForMode from `index` on: st = [fs, pages] is the
\* directory tree and manifest.pages so far.
RECURSIVE WritePagesFrom(_, _, _, _, _)
WritePagesFrom(st, feedItems, index, baseHref, totalPages) ==
  IF ~(index < Len(feedItems)) THEN st
  ELSE WritePagesFrom(
         WritePage(st, feedItems, index, (index \div FEED_PAGE_SIZE) + 1,
                   PageHref(baseHref, (index \div FEED_PAGE_SIZE) + 1),
                   totalPages),
         feedItems, index + FEED_PAGE_SIZE, baseHref, totalPages)

\* The manifest and the summary buildFeedForMode makes once the loop has
\* left `written` = [fs, pages].
FinishMode(written, mf, feedItems, modeId, baseHref, totalPages) ==
  [fs |-> written.fs,
   mf |-> writeFile(mf, modeId,
                    [mode |-> modeId,
                     pageSize |-> FEED_PAGE_SIZE,
                     totalItems |-> Len(feedItems),
                     totalPages |-> totalPages,
                     pages |-> written.pages]),
   summary |-> [id |-> modeId,
                baseHref |-> baseHref,
                pageSize |-> FEED_PAGE_SIZE,
                totalItems |-> Len(feedItems),
                totalPages |-> totalPages,
                initialPage |-> IF Len(feedItems) # 0 THEN 1 ELSE 0,
                nextPage |-> IF totalPages > 1 THEN PageHref(baseHref, 2)
                             ELSE NoUrl,
                initialItems |-> Slice(feedItems, 0, FEED_PAGE_SIZE)]]

\* buildFeedForMode from its feedItems on.
BuildFromEntries(fs, mf, feedItems, modeId, baseHref, totalPages) ==
  FinishMode(WritePagesFrom([fs |-> fs, pages |-> <<>>], feedItems, 0,
                            baseHref, totalPages),
             mf, feedItems, modeId, baseHref, totalPages)

\* Math.ceil(feedItems.length / FEED_PAGE_SIZE)
TotalPagesOf(feedItems) == MathCeilDiv(Len(feedItems), FEED_PAGE_SIZE)

BuildPaged(fs, mf, feedItems, modeId) ==
  BuildFromEntries(fs, mf, feedItems, modeId, modeId, TotalPagesOf(feedItems))

\* buildFeedForMode(items, mode) run on the page files `fs` and manifest
\* files `mf`: the files after it and the summary it returns.
buildFeedForMode(fs, mf, items, modeId) ==
  BuildPaged(fs, mf, MapFeedEntries(FilterSeq(ModeSort(modeId, items))),
             modeId)

\* The files and summaries so far, with what one more buildFeedForMode
\* returned.
WithBuilt(st, b) ==
  [fs |-> b.fs, mf |-> b.mf, modes |-> Append(st.modes, b.summary)]

\* FEED_MODES.map((mode) => buildFeedForMode(items, mode)) from mode k on.
RECURSIVE BuildModesFrom(_, _, _)
BuildModesFrom(st, items, k) ==
  IF k > Len(FEED_MODES) THEN st
  ELSE BuildModesFrom(
         WithBuilt(st, buildFeedForMode(st.fs, st.mf, items, FEED_MODES[k])),
         items, k + 1)

\* Mutant of DefaultModeId: the last mode is the default.
DefaultModeIdLast(modes) == modes[Len(modes)].id

\* modes.find((mode) => mode.totalItems > 0) || fallback, as the id.
DefaultModeId(modes) ==
  modes[FirstOf({i \in 1..Len(modes) : modes[i].totalItems > 0}, 1)].id

\* What writeFeedData returns and leaves once every mode is built.
FeedData(built) ==
  [fs |-> built.fs,
   mf |-> built.mf,
   feed |-> [defaultMode |-> DefaultModeId(built.modes),
             modes |-> built.modes]]

\* writeFeedData(items) run on the files fs, mf: the files after it and the
\* value it returns.
writeFeedData(fs, mf, items) ==
  FeedData(BuildModesFrom([fs |-> rmSyncFeedDir(fs),
                           mf |-> rmSyncFeedDir(mf),
                           modes |-> <<>>], items, 1))

(***************************************************************************)
(* renderHomePage: what the home page embeds for the feed.                 *)
(***************************************************************************)
\* <p class="feed-empty">...</p>
EmptyMarkup == <<[cls |-> "feed-empty", feedId |-> NoKey]>>

\* renderFeedItem(item): no markup without title, url and image, else an
\* <article class="feed-card"> carrying data-feed-id when the entry has an id.
renderFeedItem(item) ==
  IF ~Truthy(item.title) \/ ~Truthy(item.url) \/ ~Truthy(item.image) THEN <<>>
  ELSE <<[cls |-> "feed-card", feedId |-> item.id]>>

RECURSIVE RenderItems(_)
RenderItems(items) ==
  IF items = <<>> THEN <<>>
  ELSE renderFeedItem(Head(items)) \o RenderItems(Tail(items))

\* defaultMarkup and the <template> markup of renderHomePage.
ModeMarkup(summary) ==
  IF Len(summary.initialItems) # 0 THEN RenderItems(summary.initialItems)
  ELSE EmptyMarkup

\* The <script data-feed-state> payload of a mode.
ConfigPayload(summary) ==
  [id |-> summary.id,
   pageSize |-> summary.pageSize,
   totalItems |-> summary.totalItems,
   totalPages |-> summary.totalPages,
   currentPage |-> summary.initialPage,
   nextPage |-> summary.nextPage,
   baseHref |-> summary.baseHref]

\* A text: the JSON value it spells, and whether its double quotes are
\* written as the character reference &quot;.
JSONstringify(value) == [value |-> value, entities |-> FALSE]

\* escapeHtml(input) on the JSON text of an object, which always holds
\* double quotes: each becomes &quot;.
escapeHtml(text) == [text EXCEPT !.entities = TRUE]

\* The content renderHomePage writes into the <script data-feed-state>
\* element of a mode.
ConfigScript(summary) == escapeHtml(JSONstringify(ConfigPayload(summary)))

SummaryOf(fd, modeId) ==
  LET i == CHOOSE j \in 1..Len(fd.modes) : fd.modes[j].id = modeId
  IN fd.modes[i]

(***************************************************************************)
(* public/assets/feed.js                                                   *)
(***************************************************************************)
\* "Loading new picks" followed by an ellipsis character in the source.
LoadingText == "Loading new picks"
CaughtUpText == "You're all caught up."
NoMoreNotice == "No more gifts to show right now. Check back soon."
ErrorNotice == "We couldn't load more gifts right now. Try again in a moment."

\* collectSeenIds(): the data-feed-id values of the elements of the list.
collectSeenIds(list) ==
  {list[i].feedId : i \in {j \in 1..Len(list) : Truthy(list[j].feedId)}}

\* listEl.children.length
ChildCount(list) == Len(list)

\* The mode record initFeed builds from a config payload.
InitMode(data, initialMarkup) ==
  LET totalPages == data.totalPages
      currentPage == data.currentPage
      done == (data.nextPage = NoUrl)
              /\ (totalPages = 0
                  \/ (currentPage > 0 /\ totalPages > 0
                      /\ currentPage >= totalPages))
  IN [id |-> data.id,
      pageSize |-> data.pageSize,
      totalItems |-> data.totalItems,
      totalPages |-> totalPages,
      currentPage |-> currentPage,
      nextPage |-> data.nextPage,
      baseHref |-> data.baseHref,
      savedHtml |-> initialMarkup,
      seenIds |-> {},
      isLoading |-> FALSE,
      statusMessage |-> "",
      done |-> done]

\* updateButtonState(mode) as the button it leaves.
updateButtonState(mode) ==
  [hidden |-> ~(mode.nextPage # NoUrl), disabled |-> mode.isLoading]

\* updateStatusForMode(mode) as the status line it leaves.
updateStatusForMode(mode) ==
  IF mode.isLoading THEN [textContent |-> LoadingText, hidden |-> FALSE]
  ELSE IF mode.statusMessage # ""
    THEN [textContent |-> mode.statusMessage, hidden |-> FALSE]
  ELSE IF mode.done THEN [textContent |-> CaughtUpText, hidden |-> FALSE]
  ELSE [textContent |-> "", hidden |-> TRUE]

\* applyState(mode) as the data attributes it leaves on the feed element
\* (0 and NoUrl stand for a deleted attribute); the is-loading class is kept.
\* The total-items and page-size attributes are written and never read.
applyStateDataset(mode, el) ==
  [feedMode |-> mode.id,
   feedPage |-> mode.currentPage,
   feedTotal |-> mode.totalPages,
   feedNext |-> mode.nextPage,
   feedComplete |-> mode.done,
   isLoading |-> el.isLoading]

\* updateObserver(mode): disconnect, then observe the sentinel again when
\* the mode has more pages.
updateObserver(mode) == ~mode.done /\ mode.nextPage # NoUrl

\* createFeedCard(item): null (<<>>) without title, url and image.
createFeedCard(item) ==
  IF ~Truthy(item.title) \/ ~Truthy(item.url) \/ ~Truthy(item.image) THEN <<>>
  ELSE <<[cls |-> "feed-card", feedId |-> item.id]>>

\* Mutant of AppendItem: the id of an appended entry is not recorded.
AppendItemForgetsId(acc, item, card) ==
  IF Truthy(item.id) /\ item.id \in acc.seenIds THEN acc
  ELSE IF card = <<>> THEN acc
  ELSE [seenIds |-> acc.seenIds,
        fragment |-> acc.fragment \o card,
        appended |-> acc.appended + 1]

\* One pass of the loop of appendItems over `item`, whose card is `card`:
\* acc = [seenIds, fragment, appended].
AppendItem(acc, item, card) ==
  IF Truthy(item.id) /\ item.id \in acc.seenIds THEN acc
  ELSE IF card = <<>> THEN acc
  ELSE [seenIds |-> IF Truthy(item.id) THEN acc.seenIds \cup {item.id}
                    ELSE acc.seenIds,
        fragment |-> acc.fragment \o card,
        appended |-> acc.appended + 1]

\* The loop of appendItems.
RECURSIVE AppendLoop(_, _)
AppendLoop(acc, items) ==
  IF items = <<>> THEN acc
  ELSE AppendLoop(AppendItem(acc, Head(items), createFeedCard(Head(items))),
                  Tail(items))

NotFeedEmpty(el) == el.cls # "feed-empty"

\* The end of appendItems: a non-empty fragment replaces the placeholder,
\* goes to the end of the list, and the list is saved as the mode's markup.
MergeFragment(mode, list, acc) ==
  IF Len(acc.fragment) # 0
  THEN [mode |-> [mode EXCEPT
                    !.seenIds = acc.seenIds,
                    !.savedHtml = SelectSeq(list, NotFeedEmpty) \o acc.fragment],
        list |-> SelectSeq(list, NotFeedEmpty) \o acc.fragment,
        appended |-> acc.appended]
  ELSE [mode |-> [mode EXCEPT !.seenIds = acc.seenIds],
        list |-> list,
        appended |-> acc.appended]

\* appendItems(mode, items) on the list element `list`: the mode, the list
\* and the count it returns.
appendItems(mode, list, items) ==
  MergeFragment(mode, list,
                AppendLoop([seenIds |-> mode.seenIds, fragment |-> <<>>,
                            appended |-> 0], items))

\* The controller as one value: c = [modes, activeModeId, listEl, feedEl,
\* statusEl, loadMoreButton, observing].  NoMode is the null activeModeId.
NoMode == ""

\* applyState(mode): data attributes, button and status line.
applyState(c, mode) ==
  [c EXCEPT !.feedEl = applyStateDataset(mode, c.feedEl),
            !.loadMoreButton = updateButtonState(mode),
            !.statusEl = updateStatusForMode(mode)]

\* applyState(mode) for the mode c.modes[id].
ApplyStateOf(c, id) == applyState(c, c.modes[id])

\* updateObserver(mode) for the mode c.modes[id].
UpdateObserverOf(c, id) ==
  [c EXCEPT !.observing = updateObserver(c.modes[id])]

\* The display part of setLoading(mode, loading).
ShowLoading(c, mode, loading) ==
  [c EXCEPT !.feedEl.isLoading = loading,
            !.loadMoreButton = updateButtonState(mode),
            !.statusEl = updateStatusForMode(mode)]

\* setLoading(mode, loading) on the mode c.modes[id].
setLoading(c, id, loading) ==
  ShowLoading([c EXCEPT !.modes[id].isLoading = loading],
              [c.modes[id] EXCEPT !.isLoading = loading], loading)

\* The list ensureListContent leaves.
EnsuredList(list) == IF ChildCount(list) = 0 THEN EmptyMarkup ELSE list

\* Mutant of ensureListContent: the mode's seenIds are not collected anew.
ensureListContentKeepsSeen(c, id) ==
  [c EXCEPT !.listEl = EnsuredList(c.listEl),
            !.modes[id].savedHtml = EnsuredList(c.listEl)]

\* ensureListContent(mode) after listEl.innerHTML = mode.savedHtml.
ensureListContent(c, id) ==
  [c EXCEPT !.listEl = EnsuredList(c.listEl),
            !.modes[id].seenIds = collectSeenIds(EnsuredList(c.listEl)),
            !.modes[id].savedHtml = EnsuredList(c.listEl)]

\* activateMode: previous.savedHtml = listEl.innerHTML.
SavePrevious(c) ==
  IF c.activeModeId # NoMode
  THEN [c EXCEPT !.modes[c.activeModeId].savedHtml = c.listEl]
  ELSE c

\* activateMode: activeModeId = modeId; listEl.innerHTML = mode.savedHtml.
SwapIn(c, modeId) ==
  [c EXCEPT !.activeModeId = modeId, !.listEl = c.modes[modeId].savedHtml]

ClearStatusMessage(c, id) == [c EXCEPT !.modes[id].statusMessage = ""]

\* Mutant of activateMode: the list of the mode that is left is not saved.
activateModeForgetsPrevious(c, modeId) ==
  IF modeId \notin DOMAIN c.modes THEN c
  ELSE IF c.activeModeId = modeId THEN c
  ELSE UpdateObserverOf(
         ApplyStateOf(
           ClearStatusMessage(
             ensureListContent(SwapIn(c, modeId), modeId),
             modeId),
           modeId),
         modeId)

\* activateMode(modeId).
activateMode(c, modeId) ==
  IF modeId \notin DOMAIN c.modes THEN c
  ELSE IF c.activeModeId = modeId THEN c
  ELSE UpdateObserverOf(
         ApplyStateOf(
           ClearStatusMessage(
             ensureListContent(SwapIn(SavePrevious(c), modeId), modeId),
             modeId),
           modeId),
         modeId)

Disconnect(c) == [c EXCEPT !.observing = FALSE]

\* The exhaustion branch shared by queueLoad and loadPage: done, no next
\* page, applyState, observer.disconnect().
MarkDone(c, id) ==
  Disconnect(ApplyStateOf([c EXCEPT !.modes[id].done = TRUE,
                                    !.modes[id].nextPage = NoUrl], id))

\* The URL loadPage fetches.
PageUrl(mode, pageNumber) ==
  IF mode.baseHref # "" THEN PageHref(mode.baseHref, pageNumber)
  ELSE mode.nextPage

ShowLoadingText(c) ==
  [c EXCEPT !.statusEl = [textContent |-> LoadingText, hidden |-> FALSE]]

\* loadPage(mode, pageNumber) up to its first await: the controller it
\* leaves and the requests it has issued (none or one).
loadPageStart(c, id, pageNumber) ==
  IF PageUrl(c.modes[id], pageNumber) = NoUrl
  THEN [c |-> MarkDone(c, id), requests |-> <<>>]
  ELSE [c |-> ShowLoadingText(setLoading(ClearStatusMessage(c, id), id, TRUE)),
        requests |-> <<[mode |-> id, pageNumber |-> pageNumber,
                        url |-> PageUrl(c.modes[id], pageNumber)]>>]

\* Mutant of queueLoad: the guard does not read isLoading.
queueLoadIgnoresLoading(c) ==
  IF c.activeModeId = NoMode THEN [c |-> c, requests |-> <<>>]
  ELSE
    LET id == c.activeModeId
        mode == c.modes[id]
        nextPage == mode.currentPage + 1
    IN IF mode.done THEN [c |-> c, requests |-> <<>>]
       ELSE IF mode.totalPages # 0 /\ nextPage > mode.totalPages
         THEN [c |-> MarkDone(c, id), requests |-> <<>>]
       ELSE loadPageStart(c, id, nextPage)

\* Mutant of queueLoad: the guard does not read done.
queueLoadIgnoresDone(c) ==
  IF c.activeModeId = NoMode THEN [c |-> c, requests |-> <<>>]
  ELSE
    LET id == c.activeModeId
        mode == c.modes[id]
        nextPage == mode.currentPage + 1
    IN IF mode.isLoading THEN [c |-> c, requests |-> <<>>]
       ELSE IF mode.totalPages # 0 /\ nextPage > mode.totalPages
         THEN [c |-> MarkDone(c, id), requests |-> <<>>]
       ELSE loadPageStart(c, id, nextPage)

\* queueLoad() up to the first await.
queueLoad(c) ==
  IF c.activeModeId = NoMode THEN [c |-> c, requests |-> <<>>]
  ELSE
    LET id == c.activeModeId
        mode == c.modes[id]
        nextPage == mode.currentPage + 1
    IN IF mode.isLoading \/ mode.done THEN [c |-> c, requests |-> <<>>]
       ELSE IF mode.totalPages # 0 /\ nextPage > mode.totalPages
         THEN [c |-> MarkDone(c, id), requests |-> <<>>]
       ELSE loadPageStart(c, id, nextPage)

\* The finally block of loadPage.
FinallyDisconnect(c, id) ==
  [c EXCEPT !.observing = IF c.modes[id].done THEN FALSE ELSE @]

loadPageFinally(c, id) == FinallyDisconnect(setLoading(c, id, FALSE), id)

\* Mutant of AdvanceCursor: done is left as it was.
AdvanceCursorKeepsDone(mode, currentPage, payload) ==
  [mode EXCEPT
     !.currentPage = currentPage,
     !.totalPages = payload.totalPages,
     !.totalItems = payload.totalItems,
     !.pageSize = payload.pageSize,
     !.nextPage = IF payload.totalPages # 0
                     /\ currentPage + 1 > payload.totalPages
                  THEN NoUrl
                  ELSE PageHref(mode.baseHref, currentPage + 1)]

\* The cursor loadPage computes from the payload: currentPage, totals,
\* nextPage and done.
AdvanceCursor(mode, currentPage, payload) ==
  [mode EXCEPT
     !.currentPage = currentPage,
     !.totalPages = payload.totalPages,
     !.totalItems = payload.totalItems,
     !.pageSize = payload.pageSize,
     !.nextPage = IF payload.totalPages # 0
                     /\ currentPage + 1 > payload.totalPages
                  THEN NoUrl
                  ELSE PageHref(mode.baseHref, currentPage + 1),
     !.done = payload.totalPages # 0 /\ currentPage + 1 > payload.totalPages]

\* Mutant of SetMergeStatus: no notice when nothing was appended.
SetMergeStatusSilent(mode, appended) == [mode EXCEPT !.statusMessage = ""]

\* The statusMessage loadPage sets after a merge of `appended` entries.
SetMergeStatus(mode, appended) ==
  [mode EXCEPT !.statusMessage = IF appended # 0 THEN ""
                                 ELSE IF mode.nextPage = NoUrl THEN ""
                                 ELSE NoMoreNotice]

\* A JSON value in the place of payload.page: a number, or a value of
\* another type.  JSON.parse reads a literal beyond the range of a double,
\* such as 1e999, as Infinity.
JsonNumber(n) == [type |-> "number", num |-> n, str |-> ""]
JsonString(s) == [type |-> "string", num |-> 0, str |-> s]
JsonBoolean(b) == [type |-> "boolean", num |-> IF b THEN 1 ELSE 0, str |-> ""]
JsonNull == [type |-> "null", num |-> 0, str |-> ""]
JsonUndefined == [type |-> "undefined", num |-> 0, str |-> ""]
JsonInfinity == [type |-> "infinity", num |-> 0, str |-> ""]

\* Number(value) on a string: the number a numeric string spells, 0 for the
\* empty string, NaN for any other text.
StringToNumber(s) ==
  CASE s = "" -> [finite |-> TRUE, value |-> 0]
    [] s = "2" -> [finite |-> TRUE, value |-> 2]
    [] s = "3" -> [finite |-> TRUE, value |-> 3]
    [] OTHER -> [finite |-> FALSE, value |-> 0]

\* Number(value) with Number.isFinite of the result: undefined gives NaN,
\* null 0, true 1, false 0.
Number(v) ==
  CASE v.type = "number" -> [finite |-> TRUE, value |-> v.num]
    [] v.type = "string" -> StringToNumber(v.str)
    [] v.type = "boolean" -> [finite |-> TRUE, value |-> v.num]
    [] v.type = "null" -> [finite |-> TRUE, value |-> 0]
    [] OTHER -> [finite |-> FALSE, value |-> 0]

\* Mutant of ResolvedPage: the cursor stays on the page before the requested
\* one.
ResolvedPageStays(page, pageNumber) == pageNumber - 1

\* The currentPage loadPage takes from payload.page, or the requested page
\* number.
ResolvedPage(page, pageNumber) ==
  IF Number(page).finite /\ Number(page).value > 0 THEN Number(page).value
  ELSE pageNumber

\* The try block of loadPage once appendItems has returned r, `page` being
\* payload.page.
AfterAppend(c, id, pageNumber, payload, page, r) ==
  [c EXCEPT !.listEl = r.list,
            !.modes[id] =
              SetMergeStatus(
                AdvanceCursor(r.mode, ResolvedPage(page, pageNumber), payload),
                r.appended)]

\* loadPage after a response that is ok and parses to `payload`, with
\* `page` as its page key.
loadPageParsed(c, id, pageNumber, payload, page) ==
  loadPageFinally(
    UpdateObserverOf(
      ApplyStateOf(
        AfterAppend(c, id, pageNumber, payload, page,
                    appendItems(c.modes[id], c.listEl, payload.items)),
        id),
      id),
    id)

\* loadPage after a response that is ok and carries the page file `payload`.
loadPageSuccess(c, id, pageNumber, payload) ==
  loadPageParsed(c, id, pageNumber, payload, JsonNumber(payload.page))

SetErrorNotice(c, id) == [c EXCEPT !.modes[id].statusMessage = ErrorNotice]

\* Mutant of loadPageFailure: the catch block moves the cursor past the page
\* that failed.
loadPageFailureAdvances(c, id) ==
  loadPageFinally(
    ApplyStateOf(
      SetErrorNotice([c EXCEPT !.modes[id].currentPage = @ + 1], id), id),
    id)

\* loadPage after a response that is not ok, a transport error or a body
\* that does not parse: the catch block, then the finally block.
loadPageFailure(c, id) ==
  loadPageFinally(ApplyStateOf(SetErrorNotice(c, id), id), id)

\* The markup initFeed keeps for a mode: the list's for the default mode,
\* else the mode's template or, when that is empty, its placeholder.
InitialMarkup(fd, id) ==
  IF id = fd.defaultMode THEN ModeMarkup(SummaryOf(fd, id))
  ELSE IF ModeMarkup(SummaryOf(fd, id)) # <<>>
    THEN ModeMarkup(SummaryOf(fd, id))
  ELSE EmptyMarkup

\* The modes map initFeed builds, after refreshSeenIds(defaultMode).
InitModes(fd) ==
  [id \in ModeIds |->
     [InitMode(ConfigPayload(SummaryOf(fd, id)), InitialMarkup(fd, id))
        EXCEPT !.seenIds = IF id = fd.defaultMode
                           THEN collectSeenIds(ModeMarkup(SummaryOf(fd, id)))
                           ELSE @]]

\* The feed element, status line and button as renderHomePage wrote them.
RenderedPage(fd, dm) ==
  [modes |-> InitModes(fd),
   activeModeId |-> NoMode,
   listEl |-> ModeMarkup(dm),
   feedEl |-> [feedMode |-> dm.id,
               feedPage |-> dm.initialPage,
               feedTotal |-> dm.totalPages,
               feedNext |-> dm.nextPage,
               feedComplete |-> dm.nextPage = NoUrl,
               isLoading |-> FALSE],
   statusEl |-> [textContent |-> "", hidden |-> TRUE],
   loadMoreButton |-> [hidden |-> FALSE, disabled |-> FALSE],
   observing |-> FALSE]

\* initFeed(root) from the configs on (feed.js:56), on a page that carries
\* the markup and, as readable JSON, the state of the feed state `fd`.
initFeed(fd) ==
  activateMode(RenderedPage(fd, SummaryOf(fd, fd.defaultMode)), fd.defaultMode)

\* node.textContent of a <script> element: the HTML parser reads the content
\* of a script element as raw text and decodes no character reference in it.
ScriptTextContent(text) == text

\* JSON.parse(text) inside try/catch: no value (<<>>) for a text that is not
\* JSON, as one with &quot; in the place of its double quotes is not.
JSONparse(text) == IF text.entities THEN <<>> ELSE <<text.value>>

\* The configs initFeed collects from the state scripts of the page, from
\* mode k on.
RECURSIVE ConfigsFrom(_, _)
ConfigsFrom(fd, k) ==
  IF k > Len(fd.modes) THEN <<>>
  ELSE JSONparse(ScriptTextContent(ConfigScript(fd.modes[k])))
         \o ConfigsFrom(fd, k + 1)

\* initFeed(root) on the home page renderHomePage wrote for `fd`: it returns
\* before it builds a mode or adds a listener when no config was collected.
loadHomePage(fd) ==
  IF ConfigsFrom(fd, 1) = <<>>
  THEN [RenderedPage(fd, SummaryOf(fd, fd.defaultMode)) EXCEPT !.modes = <<>>]
  ELSE initFeed(fd)

(***************************************************************************)
(* Catalogs (data/items.json) of the model.                                *)
(***************************************************************************)
Item(id, title, updated, count, rating, image) ==
  [id |-> id, title |-> title, url |-> "u", image |-> image,
   updated_at |-> updated, rating_count |-> count, rating |-> rating]

\* Five complete records whose two orders differ, a record with a blank
\* title, a record without image, a record that ties with the first one in
\* both orders, and two records without a timestamp.
Pool ==
  <<Item("p1", "a", "t2", 0, 0, "i"),
    Item("p2", "b", "t2", 2, 0, "i"),
    Item("p3", "a", "t1", 1, 0, "i"),
    Item("p4", "b", "t1", 3, 0, "i"),
    Item("p5", "a", "bad", 0, 1, "i"),
    Item("p6", " ", "t1", 0, 0, "i"),
    Item("p7", "b", NoKey, 1, 1, NoKey),
    Item("p8", "a", "t2", 0, 0, "i"),
    Item("p9", "a", NoKey, 0, 0, "i"),
    Item("p10", "b", NoKey, 0, 0, "i")>>

\* The records a build of the builder's specification may find in the
\* catalog.
BuildPool == {Pool[i] : i \in {1, 3, 6, 7, 8, 9, 10}}

\* The catalogs published during a browser session: the prefixes of the
\* pool, and the longest of them as it was before its two newest records,
\* the first two of either order, were added.
SessionCatalogs ==
  {SubSeq(Pool, 1, n) : n \in 0..Min(MaxSessionItems, Len(Pool))}
  \cup {SubSeq(Pool, 3, Min(MaxSessionItems, Len(Pool)))}

(***************************************************************************)
(* State.                                                                  *)
(***************************************************************************)
VARIABLES
  catalog,         \* data/items.json of the latest build
  products,        \* main: the products of the latest build
  feedPages,       \* public/assets/feed/<mode>/page-<n>.json, by <<mode, n>>
  feedManifests,   \* public/assets/feed/<mode>/manifest.json, by mode
  feed,            \* the value the latest writeFeedData returned
  rebuilds,        \* builds run since the page was loaded
  tabs,            \* the disabled attribute of each tab of the loaded page
  modes,           \* feed.js: the modes map
  activeModeId,    \* feed.js: activeModeId
  listEl,          \* the children of [data-feed-list]
  feedEl,          \* data attributes and is-loading class of [data-feed]
  statusEl,        \* [data-feed-status]
  loadMoreButton,  \* [data-feed-more]
  observing,       \* the observer is observing the sentinel
  inflight,        \* fetches awaiting their response: [mode, pageNumber, url]
                   \* and, as history, the mode before the fetch started and
                   \* whether the page file was missing when it started
  lastOp,          \* history: the handler that ran last, its mode, and for a
                   \* build whether it found page files beyond its last page
  nav              \* nav.js: the single-feed client of a page that has one,
                   \* with its calls of loadPage that await a response

serverVars == <<catalog, products, feedPages, feedManifests, feed>>

clientVars == <<tabs, modes, activeModeId, listEl, feedEl, statusEl,
                loadMoreButton, observing, inflight>>

vars == <<catalog, products, feedPages, feedManifests, feed, rebuilds, tabs, modes,
          activeModeId, listEl, feedEl, statusEl, loadMoreButton, observing,
          inflight, lastOp, nav>>

\* The nav variable of a page without single-feed client.
NoNav == <<>>

Controller ==
  [modes |-> modes, activeModeId |-> activeModeId, listEl |-> listEl,
   feedEl |-> feedEl, statusEl |-> statusEl,
   loadMoreButton |-> loadMoreButton, observing |-> observing]

SetController(c) ==
  /\ modes' = c.modes
  /\ activeModeId' = c.activeModeId
  /\ listEl' = c.listEl
  /\ feedEl' = c.feedEl
  /\ statusEl' = c.statusEl
  /\ loadMoreButton' = c.loadMoreButton
  /\ observing' = c.observing

\* The disabled attribute renderHomePage gives the tab of each mode.
TabsOf(fd) ==
  [id \in ModeIds |-> [disabled |-> SummaryOf(fd, id).totalItems = 0]]

\* The state after the first build, on catalog `items`, has left the files
\* and feed state `w` and the page load has left the controller `c`.
InitWith(items, w, c) ==
  /\ catalog = items
  /\ products = PrepareAll(items, FALSE)
  /\ feedPages = w.fs
  /\ feedManifests = w.mf
  /\ feed = w.feed
  /\ rebuilds = 0
  /\ tabs = TabsOf(w.feed)
  /\ modes = c.modes
  /\ activeModeId = c.activeModeId
  /\ listEl = c.listEl
  /\ feedEl = c.feedEl
  /\ statusEl = c.statusEl
  /\ loadMoreButton = c.loadMoreButton
  /\ observing = c.observing
  /\ inflight = <<>>
  /\ lastOp = [op |-> "initFeed", mode |-> c.activeModeId, shrunk |-> FALSE]

\* A build of the site on catalog `items`, then a load of a page that
\* carries the state of that build as readable JSON.
InitFrom(items) ==
  \E w \in {writeFeedData(<<>>, <<>>, PrepareAll(items, FALSE))} :
    \E c \in {initFeed(w.feed)} : InitWith(items, w, c) /\ nav = NoNav

Init == \E items \in SessionCatalogs : InitFrom(items)

(***************************************************************************)
(* Actions of a browser session.                                           *)
(***************************************************************************)
\* History: a request together with its mode as it was when queueLoad was
\* called, and whether the page file it asks for was missing at that time.
WithBefore(req) ==
  [mode |-> req.mode, pageNumber |-> req.pageNumber, url |-> req.url,
   before |-> modes[req.mode], stale |-> req.url \notin DOMAIN feedPages]

\* A click on the load-more button or an intersection of the sentinel: the
\* listener calls queueLoad().
Trigger ==
  \E r \in {queueLoad(Controller)} :
    /\ SetController(r.c)
    /\ inflight' = inflight \o [k \in 1..Len(r.requests) |->
                                  WithBefore(r.requests[k])]
    /\ lastOp' = [op |-> "queueLoad", mode |-> activeModeId, shrunk |-> FALSE]
    /\ UNCHANGED <<serverVars, rebuilds, tabs, nav>>

\* A click on the tab of mode id (a disabled tab gets no click).
TabClick(id) ==
  /\ ~tabs[id].disabled
  /\ \E c \in {activateMode(Controller, id)} : SetController(c)
  /\ lastOp' = [op |-> "activateMode", mode |-> id, shrunk |-> FALSE]
  /\ UNCHANGED <<serverVars, rebuilds, tabs, inflight, nav>>

RemoveAt(s, i) == SubSeq(s, 1, i - 1) \o SubSeq(s, i + 1, Len(s))

\* The fetch inflight[i] gets the page file as its response.
FetchSucceeds(i) ==
  /\ i \in 1..Len(inflight)
  /\ inflight[i].url \in DOMAIN feedPages
  /\ \E c \in {loadPageSuccess(Controller, inflight[i].mode,
                               inflight[i].pageNumber,
                               feedPages[inflight[i].url])} : SetController(c)
  /\ inflight' = RemoveAt(inflight, i)
  /\ lastOp' = [op |-> "success", mode |-> inflight[i].mode, shrunk |-> FALSE]
  /\ UNCHANGED <<serverVars, rebuilds, tabs, nav>>

\* The fetch inflight[i] fails: 404 for a page file that does not exist, or
\* any other HTTP or transport error.
FetchFails(i) ==
  /\ i \in 1..Len(inflight)
  /\ \E c \in {loadPageFailure(Controller, inflight[i].mode)} :
       SetController(c)
  /\ inflight' = RemoveAt(inflight, i)
  /\ lastOp' = [op |-> "failure", mode |-> inflight[i].mode, shrunk |-> FALSE]
  /\ UNCHANGED <<serverVars, rebuilds, tabs, nav>>

\* tools/build.mjs runs on catalog `items`, prepares the products `prepared`
\* from it, and its output is published.
RunBuild(items, prepared, w) ==
  /\ w = writeFeedData(feedPages, feedManifests, prepared)
  /\ catalog' = items
  /\ products' = prepared
  /\ feedPages' = w.fs
  /\ feedManifests' = w.mf
  /\ feed' = w.feed

\* History: a build that leaves the manifests `manifests` found, among the
\* page files `pages` of the build before it, one beyond its own last page.
Shrunk(pages, manifests) ==
  \E path \in DOMAIN pages : path[2] > manifests[path[1]].totalPages

\* The site is rebuilt while the page is open.
Rebuild ==
  /\ rebuilds < MaxRebuilds
  /\ \E items \in SessionCatalogs, ticks \in BOOLEAN :
       \E prepared \in {PrepareAll(items, ticks)} :
         \E w \in {writeFeedData(feedPages, feedManifests, prepared)} :
           RunBuild(items, prepared, w)
  /\ rebuilds' = rebuilds + 1
  /\ lastOp' = [op |-> "build", mode |-> NoMode, shrunk |-> Shrunk(feedPages, feedManifests')]
  /\ UNCHANGED <<clientVars, nav>>

Next ==
  \/ Trigger
  \/ \E id \in ModeIds : TabClick(id)
  \/ \E i \in 1..Len(inflight) : FetchSucceeds(i)
  \/ \E i \in 1..Len(inflight) : FetchFails(i)
  \/ Rebuild

Spec == Init /\ [][Next]_vars

(***************************************************************************)
(* Properties of a browser session (specification Spec).                   *)
(***************************************************************************)
\* The fetches in flight for mode id.
InflightOf(id) == {i \in 1..Len(inflight) : inflight[i].mode = id}

\* The handler of the response to inflight[i] runs.
Completes(i) == FetchSucceeds(i) \/ FetchFails(i)

\* The ids of the cards of a list, in order.
CardIds(list) ==
  LET cards == SelectSeq(list, NotFeedEmpty)
  IN [k \in 1..Len(cards) |-> cards[k].feedId]

NoRepeat(seq) == \A i, j \in 1..Len(seq) : seq[i] = seq[j] => i = j

\* The fragment of a mode: the list while the mode is active (what
\* activateMode saves when the user switches away), else its savedHtml.
FragmentOf(id) == IF activeModeId = id THEN listEl ELSE modes[id].savedHtml

\* What the page shows for the active mode.
Display ==
  <<listEl, feedEl.feedPage, feedEl.feedNext, feedEl.feedComplete, statusEl,
    loadMoreButton>>

\* C1: for every mode at most one page fetch is in flight, and the mode's
\* isLoading is true exactly while its fetch is in flight: it is set in the
\* step that issues the fetch and cleared by the step that handles the
\* response.
C1_OneFetchPerMode ==
  \A id \in ModeIds :
    /\ Cardinality(InflightOf(id)) <= 1
    /\ modes[id].isLoading <=> InflightOf(id) # {}

\* C1 witness: a trigger has just started a fetch while the other mode's
\* fetch is still in flight.
C1_Witness ==
  /\ lastOp.op = "queueLoad"
  /\ Len(inflight) = 2
  /\ \A id \in ModeIds : modes[id].isLoading

\* C2 (as claimed): the handler of a response for a mode that is not the
\* active one leaves the list, the page/next/complete attributes, the status
\* line and the load-more button as they were.
C2_InactiveCompletionKeepsDisplay ==
  [][\A i \in 1..Len(inflight) :
       (Completes(i) /\ inflight[i].mode # activeModeId)
         => Display' = Display]_vars

\* C3 (as claimed): the handler of a response for mode A changes, of any
\* other mode B, neither seenIds, currentPage, nextPage, done nor the
\* fragment that is or will be saved for B.
C3_ModeIsolation ==
  [][\A i \in 1..Len(inflight) : \A b \in ModeIds :
       (Completes(i) /\ inflight[i].mode # b)
         => /\ modes'[b].seenIds = modes[b].seenIds
            /\ modes'[b].currentPage = modes[b].currentPage
            /\ modes'[b].nextPage = modes[b].nextPage
            /\ modes'[b].done = modes[b].done
            /\ FragmentOf(b)' = FragmentOf(b)]_vars

\* C4 (as claimed): the displayed list never holds two cards with the same
\* id.
C4_NoDuplicateCards == NoRepeat(CardIds(listEl))

\* C5: a trigger for a mode that is done or has no next page issues no request and leaves the
\* whole mode record (currentPage, nextPage, seenIds, done, statusMessage,
\* savedHtml) and the list unchanged.
C5_DoneTriggerIsNoOp ==
  [][(/\ Trigger
      /\ activeModeId # NoMode
      /\ modes[activeModeId].done \/ modes[activeModeId].nextPage = NoUrl)
       => /\ inflight' = inflight
          /\ modes' = modes
          /\ listEl' = listEl]_vars

\* C5 witness: queueLoad has just run for a mode that is done, with no next
\* page, and nothing is in flight for it.
C5_Witness ==
  /\ lastOp.op = "queueLoad"
  /\ lastOp.mode # NoMode
  /\ modes[lastOp.mode].done
  /\ modes[lastOp.mode].nextPage = NoUrl
  /\ modes[lastOp.mode].currentPage > 1
  /\ InflightOf(lastOp.mode) = {}

\* C6 (as claimed): when the failure handler of a fetch finishes, the mode's
\* currentPage, nextPage, done, seenIds and savedHtml are what they were
\* before the fetch started, isLoading is false and statusMessage is a
\* non-empty notice.
C6_FailureMergesNothing ==
  [][\A i \in 1..Len(inflight) :
       FetchFails(i) =>
         LET id == inflight[i].mode
             before == inflight[i].before
         IN /\ modes'[id].currentPage = before.currentPage
            /\ modes'[id].nextPage = before.nextPage
            /\ modes'[id].done = before.done
            /\ modes'[id].seenIds = before.seenIds
            /\ modes'[id].savedHtml = before.savedHtml
            /\ ~modes'[id].isLoading
            /\ modes'[id].statusMessage # ""]_vars

\* C10 (as claimed): when a newer build has shrunk the catalog so that the
\* page of the mode's cursor no longer exists, the fetch the next trigger
\* starts for it ends with the mode done, no next page and no error notice.
C10_StalePageIsExhaustion ==
  [][\A i \in 1..Len(inflight) :
       (Completes(i) /\ rebuilds > 0 /\ inflight[i].stale
          /\ inflight[i].url \notin DOMAIN feedPages)
         => /\ modes'[inflight[i].mode].done
            /\ modes'[inflight[i].mode].nextPage = NoUrl
            /\ modes'[inflight[i].mode].statusMessage # ErrorNotice]_vars

\* C11: with nothing in flight, a click on the tab of another mode followed
\* by a switch back to the mode that was active shows the list that mode
\* showed before, with its currentPage, nextPage and done as they were, and
\* neither switch starts a fetch.
C11_SwitchRoundTrip ==
  [][\A b \in ModeIds :
       (TabClick(b) /\ inflight = <<>> /\ activeModeId \notin {NoMode, b})
         => /\ inflight' = <<>>
            /\ activeModeId' = b
            /\ activateMode(Controller', activeModeId).activeModeId
                 = activeModeId
            /\ activateMode(Controller', activeModeId).listEl = listEl
            /\ activateMode(Controller', activeModeId).modes[activeModeId].currentPage
                 = modes[activeModeId].currentPage
            /\ activateMode(Controller', activeModeId).modes[activeModeId].nextPage
                 = modes[activeModeId].nextPage
            /\ activateMode(Controller', activeModeId).modes[activeModeId].done
                 = modes[activeModeId].done]_vars

\* C11 witness: the user has just switched, with nothing in flight, away
\* from a mode that had merged a fetched page into its list.
C11_Witness ==
  /\ lastOp.op = "activateMode"
  /\ inflight = <<>>
  /\ \E a \in ModeIds \ {activeModeId} :
       /\ modes[a].currentPage >= 2
       /\ Len(modes[a].savedHtml) > FEED_PAGE_SIZE

\* C12: once a page has been merged into a mode, merging the same payload
\* into that mode again appends no entry and leaves the list and the mode's
\* seenIds as the first merge left them.
C12_RemergeAppendsNothing ==
  [][\A i \in 1..Len(inflight) :
       FetchSucceeds(i) =>
         /\ appendItems(modes'[inflight[i].mode], listEl',
                        feedPages[inflight[i].url].items).appended = 0
         /\ appendItems(modes'[inflight[i].mode], listEl',
                        feedPages[inflight[i].url].items).list = listEl'
         /\ appendItems(modes'[inflight[i].mode], listEl',
                        feedPages[inflight[i].url].items).mode.seenIds
              = modes'[inflight[i].mode].seenIds]_vars

\* C12 witness: a fetched page has just been merged and its cards are in the
\* list of the mode, which is the active one.
C12_Witness ==
  /\ lastOp.op = "success"
  /\ lastOp.mode = activeModeId
  /\ modes[activeModeId].currentPage >= 2
  /\ Len(listEl) > FEED_PAGE_SIZE
  /\ Cardinality(modes[activeModeId].seenIds) > FEED_PAGE_SIZE

\* The ids of the entries of the page files 1..last of mode id, in page
\* order.
RECURSIVE PageIdsUpTo(_, _)
PageIdsUpTo(id, last) ==
  IF last = 0 THEN <<>>
  ELSE PageIdsUpTo(id, last - 1)
         \o [k \in 1..Len(feedPages[<<id, last>>].items) |->
               feedPages[<<id, last>>].items[k].id]

\* C13 (as claimed, its safety half): while the page files are those of the
\* build the page was loaded from, the fragment of a mode that has reached
\* done holds every entry of its pages 1..totalPages exactly once, in page
\* order.
C13_DoneFragmentIsAllPages ==
  \A id \in ModeIds :
    (rebuilds = 0 /\ modes[id].done)
      => CardIds(FragmentOf(id))
           = PageIdsUpTo(id, feedManifests[id].totalPages)

\* The fragment of mode id in the controller c.
FragmentIn(c, id) ==
  IF c.activeModeId = id THEN c.listEl ELSE c.modes[id].savedHtml

\* The controller after the responses to inflight[i] and then inflight[j]
\* have been handled, both with their page files.
AfterBoth(i, j) ==
  loadPageSuccess(
    loadPageSuccess(Controller, inflight[i].mode, inflight[i].pageNumber,
                    feedPages[inflight[i].url]),
    inflight[j].mode, inflight[j].pageNumber, feedPages[inflight[j].url])

\* C20 (as claimed): when fetches of two modes are in flight together, each
\* mode's currentPage, nextPage, done, seenIds and fragment come out the same
\* whichever response is handled first.
C20_CompletionOrderIrrelevant ==
  \A i, j \in 1..Len(inflight) :
    (/\ inflight[i].mode # inflight[j].mode
     /\ inflight[i].url \in DOMAIN feedPages
     /\ inflight[j].url \in DOMAIN feedPages)
      => \A id \in ModeIds :
           /\ AfterBoth(i, j).modes[id].currentPage
                = AfterBoth(j, i).modes[id].currentPage
           /\ AfterBoth(i, j).modes[id].nextPage
                = AfterBoth(j, i).modes[id].nextPage
           /\ AfterBoth(i, j).modes[id].done = AfterBoth(j, i).modes[id].done
           /\ AfterBoth(i, j).modes[id].seenIds
                = AfterBoth(j, i).modes[id].seenIds
           /\ FragmentIn(AfterBoth(i, j), id) = FragmentIn(AfterBoth(j, i), id)

\* C21: a mode that is done has no next page, and no step (trigger, response
\* handler, tab click or rebuild) leaves it with done false or with a next
\* page.
C21_DoneIsTerminal ==
  [][\A id \in ModeIds :
       modes[id].done
         => /\ modes[id].nextPage = NoUrl
            /\ modes'[id].done
            /\ modes'[id].nextPage = NoUrl]_vars

\* C21 witness: a mode has fetched its way to done, and since then the page
\* of the other mode has been merged by the handler of its response.
C21_Witness ==
  /\ lastOp.op = "success"
  /\ \E id \in ModeIds \ {lastOp.mode} :
       /\ modes[id].done
       /\ modes[id].currentPage >= 2
       /\ modes[lastOp.mode].currentPage >= 2

\* C22 (as claimed): the observer observes the sentinel exactly when the
\* active mode is not done and has a next page.
C22_ObserverTracksActiveMode ==
  activeModeId # NoMode
    => (observing <=> (/\ ~modes[activeModeId].done
                       /\ modes[activeModeId].nextPage # NoUrl))

\* C23: when the success handler of a fetch appends no entry and the mode
\* still has a next page, the mode is left idle and not done, its currentPage
\* is the fetched page, one more than before, its statusMessage is a
\* non-empty notice, and a trigger on that mode then requests the page after
\* the fetched one.
C23_EmptyMergeIsNotExhaustion ==
  [][\A i \in 1..Len(inflight) :
       (/\ FetchSucceeds(i)
        /\ appendItems(modes[inflight[i].mode], listEl,
                       feedPages[inflight[i].url].items).appended = 0
        /\ modes'[inflight[i].mode].nextPage # NoUrl)
         => /\ ~modes'[inflight[i].mode].done
            /\ ~modes'[inflight[i].mode].isLoading
            /\ modes'[inflight[i].mode].currentPage = inflight[i].pageNumber
            /\ modes'[inflight[i].mode].currentPage
                 = modes[inflight[i].mode].currentPage + 1
            /\ modes'[inflight[i].mode].statusMessage # ""
            /\ activeModeId' = inflight[i].mode
                 => \E r \in {queueLoad(Controller')} :
                      /\ Len(r.requests) = 1
                      /\ r.requests[1].mode = inflight[i].mode
                      /\ r.requests[1].pageNumber = inflight[i].pageNumber + 1]_vars

\* C23 witness: the success handler has just merged a page of which every
\* entry was already in the mode's list, and the mode has a next page.
C23_Witness ==
  /\ lastOp.op = "success"
  /\ modes[lastOp.mode].statusMessage = NoMoreNotice
  /\ modes[lastOp.mode].nextPage # NoUrl
  /\ ~modes[lastOp.mode].done

(***************************************************************************)
(* A browser session against a server whose page artifacts are malformed   *)
(* in their page key.                                                      *)
(***************************************************************************)
\* The values a response may carry as payload.page: numbers, and values of
\* every other type JSON has, or none.
PageValues ==
  {JsonNumber(k) : k \in -1..MaxReportedPage}
  \cup {JsonUndefined, JsonNull, JsonInfinity, JsonBoolean(TRUE),
        JsonString("abc"), JsonString("3")}

\* The fetch inflight[i] gets a response that is ok and parses to the page
\* file with `page` as its page key.
FetchResponds(i, page) ==
  /\ i \in 1..Len(inflight)
  /\ inflight[i].url \in DOMAIN feedPages
  /\ \E c \in {loadPageParsed(Controller, inflight[i].mode,
                              inflight[i].pageNumber,
                              feedPages[inflight[i].url], page)} :
       SetController(c)
  /\ inflight' = RemoveAt(inflight, i)
  /\ lastOp' = [op |-> "success", mode |-> inflight[i].mode, shrunk |-> FALSE]
  /\ UNCHANGED <<serverVars, rebuilds, tabs, nav>>

NextPayload ==
  \/ Trigger
  \/ \E id \in ModeIds : TabClick(id)
  \/ \E i \in 1..Len(inflight) : \E page \in PageValues : FetchResponds(i, page)

\* The page is loaded from a build of a session catalog of several pages.
InitPayload == InitFrom(SubSeq(Pool, 1, Min(MaxSessionItems, Len(Pool)) - 1))

SpecPayload == InitPayload /\ [][NextPayload]_vars

\* C24 (as claimed): after the success handler of a fetch of page n,
\* currentPage is payload.page when that is a finite number above 0, and n
\* when the key is missing, not a number, zero or negative.
C24_CurrentPageFromPayload ==
  [][\A i \in 1..Len(inflight) : \A page \in PageValues :
       FetchResponds(i, page)
         => modes'[inflight[i].mode].currentPage
              = IF page.type = "number" /\ page.num > 0 THEN page.num
                ELSE inflight[i].pageNumber]_vars

\* A mode's done flag is true exactly when it has no next page.
DoneIffNoNextPage == \A id \in ModeIds : modes[id].done <=> modes[id].nextPage = NoUrl

\* C25: before and after every step, each mode is done exactly when its
\* nextPage is empty; and the success handler of a fetch leaves the mode
\* done with an empty nextPage when its totalPages is not 0 and
\* currentPage + 1 is above it, and otherwise not done with the location of
\* page currentPage + 1 as nextPage.
C25_DoneMatchesNextPage ==
  [][/\ DoneIffNoNextPage
     /\ DoneIffNoNextPage'
     /\ \A i \in 1..Len(inflight) :
          FetchSucceeds(i) =>
            \E m \in {modes'[inflight[i].mode]} :
              IF m.totalPages # 0 /\ m.currentPage + 1 > m.totalPages
              THEN m.nextPage = NoUrl /\ m.done
              ELSE /\ m.nextPage = PageHref(m.baseHref, m.currentPage + 1)
                   /\ ~m.done]_vars

\* C25 witness: the success handler has just left a mode done on its last
\* page while the other mode, after a fetch of its own, has pages left.
C25_Witness ==
  /\ lastOp.op = "success"
  /\ modes[lastOp.mode].done
  /\ modes[lastOp.mode].currentPage >= 2
  /\ modes[lastOp.mode].currentPage = modes[lastOp.mode].totalPages
  /\ \E id \in ModeIds \ {lastOp.mode} :
       /\ modes[id].currentPage >= 2
       /\ ~modes[id].done
       /\ modes[id].nextPage = PageHref(id, modes[id].currentPage + 1)

\* C26: the failure handler of a fetch issues no request and leaves nothing
\* in flight for its mode; a request is only ever added by a trigger; and
\* the trigger that follows the failure, once the mode is the active one,
\* requests the page number and URL of the fetch that failed.
C26_FailureIsNotRetried ==
  [][/\ Len(inflight') > Len(inflight) => Trigger
     /\ \A i \in 1..Len(inflight) :
          FetchFails(i) =>
            /\ \A k \in 1..Len(inflight') :
                 inflight'[k].mode # inflight[i].mode
            /\ Len(inflight') = Len(inflight) - 1
            /\ \E r \in {queueLoad(activateMode(Controller',
                                                inflight[i].mode))} :
                 /\ Len(r.requests) = 1
                 /\ r.requests[1].mode = inflight[i].mode
                 /\ r.requests[1].pageNumber = inflight[i].pageNumber
                 /\ r.requests[1].url = inflight[i].url]_vars

\* C26 witness: the failure handler has just run for the fetch of a page
\* after the second, the mode shows the error notice and nothing is in
\* flight for it.
C26_Witness ==
  /\ lastOp.op = "failure"
  /\ modes[lastOp.mode].statusMessage = ErrorNotice
  /\ modes[lastOp.mode].currentPage >= 2
  /\ ~modes[lastOp.mode].isLoading
  /\ InflightOf(lastOp.mode) = {}

\* C27: a click on the tab of the active mode changes nothing of the
\* controller; a click on the tab of another mode makes it the active one,
\* shows its saved markup (the placeholder when that has no element), saves
\* the list as that markup, leaves its seenIds the set of the ids of the
\* cards now in the list, and saves the list shown before the click as the
\* markup of the mode that was active.
C27_ActivationSwapsFragments ==
  [][\A b \in ModeIds :
       TabClick(b) =>
         IF activeModeId = b THEN UNCHANGED clientVars
         ELSE /\ activeModeId' = b
              /\ listEl' = IF Len(modes[b].savedHtml) = 0 THEN EmptyMarkup
                           ELSE modes[b].savedHtml
              /\ modes'[b].savedHtml = listEl'
              /\ modes'[b].seenIds
                   = {listEl'[k].feedId :
                        k \in {j \in 1..Len(listEl') :
                                 /\ listEl'[j].cls = "feed-card"
                                 /\ listEl'[j].feedId # NoKey}}
              /\ activeModeId # NoMode
                   => modes'[activeModeId].savedHtml = listEl]_vars

\* C27 witness: the user has just switched to a mode with cards, away from a
\* mode that had merged a fetched page into the list.
C27_Witness ==
  /\ lastOp.op = "activateMode"
  /\ activeModeId = lastOp.mode
  /\ modes[activeModeId].seenIds # {}
  /\ modes[activeModeId].savedHtml = listEl
  /\ \E a \in ModeIds \ {activeModeId} :
       /\ modes[a].currentPage >= 2
       /\ modes[a].savedHtml # listEl

\* C28: with page files that report their own number, every request a
\* trigger adds is for the page after the mode's currentPage; the success
\* handler of a fetch sets currentPage to the requested page, one more than
\* before; and no step lowers a mode's currentPage or takes it above the
\* mode's totalPages.
C28_PagesInAscendingOrder ==
  [][/\ Len(inflight') > Len(inflight)
          => /\ inflight'[Len(inflight')].mode = activeModeId
             /\ inflight'[Len(inflight')].pageNumber
                  = modes[activeModeId].currentPage + 1
     /\ \A i \in 1..Len(inflight) :
          FetchSucceeds(i) =>
            /\ feedPages[inflight[i].url].page = inflight[i].pageNumber
            /\ modes'[inflight[i].mode].currentPage = inflight[i].pageNumber
            /\ modes'[inflight[i].mode].currentPage
                 = modes[inflight[i].mode].currentPage + 1
     /\ \A id \in ModeIds :
          /\ modes'[id].currentPage >= modes[id].currentPage
          /\ modes[id].currentPage <= modes[id].totalPages
          /\ modes'[id].currentPage <= modes'[id].totalPages]_vars

\* C28 witness: the success handler has just merged the third page of a
\* mode, after its second.
C28_Witness ==
  /\ lastOp.op = "success"
  /\ modes[lastOp.mode].currentPage >= 3
  /\ Cardinality(modes[lastOp.mode].seenIds) > 2 * FEED_PAGE_SIZE

(***************************************************************************)
(* public/assets/nav.js: the single-feed client.  Its page is the home     *)
(* page of the builder variant with one feed, which holds the entries of   *)
(* the recent mode in the same order, in /assets/feed/page-<n>.json        *)
(* (NavPageHref(n)) with the manifest /assets/feed/manifest.json.          *)
(***************************************************************************)
NavPageHref(page) == PageHref("", page)

\* The page file and the manifest the server holds for the single feed.
NavPageFile(url) == feedPages[<<"recent", url[2]>>]

NavManifest ==
  [totalPages |-> feedManifests["recent"].totalPages,
   pages |-> [k \in 1..feedManifests["recent"].totalPages |->
                [page |-> k, href |-> NavPageHref(k)]]]

\* The state of nav.js once the script has run on the home page of the
\* summary `s`: state, seenIds, the list, the status line, the button, the
\* data attributes it writes and the observer; no call awaits a response.
nav_init(s) ==
  [currentPage |-> s.initialPage,
   totalPages |-> s.totalPages,
   isLoading |-> FALSE,
   done |-> s.nextPage = NoUrl,
   manifest |-> <<>>,
   seenIds |-> collectSeenIds(ModeMarkup(s)),
   listEl |-> ModeMarkup(s),
   statusEl |-> IF s.totalPages > 1
                THEN [textContent |-> LoadingText, hidden |-> TRUE]
                ELSE [textContent |-> CaughtUpText, hidden |-> FALSE],
   buttonDisabled |-> s.nextPage = NoUrl,
   feedNext |-> IF s.totalPages > 1 THEN NavPageHref(2) ELSE NoUrl,
   feedComplete |-> s.nextPage = NoUrl,
   observing |-> s.nextPage # NoUrl,
   calls |-> <<>>]

\* setStatus(message, {hidden}): an empty message keeps the text.
nav_setStatus(n, message, hidden) ==
  [n EXCEPT !.statusEl = [textContent |-> IF message # "" THEN message
                                          ELSE n.statusEl.textContent,
                          hidden |-> hidden]]

nav_setLoading(n, loading) ==
  [n EXCEPT !.isLoading = loading, !.buttonDisabled = loading]

nav_markComplete(n) ==
  [nav_setStatus(n, CaughtUpText, FALSE)
     EXCEPT !.done = TRUE, !.feedComplete = TRUE, !.feedNext = NoUrl,
            !.buttonDisabled = TRUE, !.observing = FALSE]

\* The href the manifest gives for a page, or none.
ManifestHref(manifest, page) ==
  IF manifest # <<>> /\ page \in DOMAIN manifest[1].pages
  THEN manifest[1].pages[page].href
  ELSE NoUrl

\* getPageUrl(page): null is NoUrl.
nav_getPageUrl(n, page) ==
  IF page = 0 \/ (n.totalPages # 0 /\ page > n.totalPages) THEN NoUrl
  ELSE IF ManifestHref(n.manifest, page) # NoUrl
    THEN ManifestHref(n.manifest, page)
  ELSE NavPageHref(page)

\* appendItems(items) once its loop has left acc.
nav_mergeFragment(n, acc) ==
  [n EXCEPT !.seenIds = acc.seenIds,
            !.listEl = IF Len(acc.fragment) # 0
                       THEN SelectSeq(n.listEl, NotFeedEmpty) \o acc.fragment
                       ELSE n.listEl]

\* loadPage(page) from the end of `await ensureManifest()` to its next
\* await: the state it leaves and the call that now awaits the page.
nav_loadPageFetch(n, page) ==
  IF nav_getPageUrl(n, page) = NoUrl
  THEN [n |-> nav_markComplete(n), calls |-> <<>>]
  ELSE [n |-> nav_setStatus(nav_setLoading(n, TRUE), LoadingText, FALSE),
        calls |-> <<[pc |-> "page", page |-> page,
                     url |-> nav_getPageUrl(n, page)]>>]

\* ensureManifest() up to its await: it fetches the manifest unless one is
\* held, and loadPage goes on when it has returned.
nav_loadPage(n, page) ==
  IF n.manifest # <<>> THEN nav_loadPageFetch(n, page)
  ELSE [n |-> n,
        calls |-> <<[pc |-> "manifest", page |-> page, url |-> NoUrl]>>]

\* queueLoad() up to the first await that waits for a response.
nav_queueLoad(n) ==
  IF n.isLoading \/ n.done THEN [n |-> n, calls |-> <<>>]
  ELSE IF n.totalPages # 0 /\ n.currentPage + 1 > n.totalPages
    THEN [n |-> nav_markComplete(n), calls |-> <<>>]
  ELSE nav_loadPage(n, n.currentPage + 1)

\* ensureManifest() after its response: the manifest and its totalPages are
\* kept when the response is ok, nothing is when it is not.
nav_ensureManifestDone(n, ok, payload) ==
  IF ok THEN [n EXCEPT !.manifest = <<payload>>,
                       !.totalPages = payload.totalPages]
  ELSE n

\* The end of the try block of loadPage: next link and status for the
\* cursor that has been set, `appended` entries having been merged.
nav_afterCursor(n, appended) ==
  LET nextUrl == nav_getPageUrl(n, n.currentPage + 1)
      exhausted == nextUrl = NoUrl
                   \/ (n.totalPages # 0 /\ n.currentPage + 1 > n.totalPages)
  IN IF exhausted THEN [nav_markComplete(n) EXCEPT !.feedNext = NoUrl]
     ELSE IF appended # 0
       THEN [nav_setStatus(n, "", TRUE) EXCEPT !.feedNext = nextUrl]
     ELSE [nav_setStatus(n, NoMoreNotice, FALSE) EXCEPT !.feedNext = nextUrl]

\* loadPage(page) after a response that is ok and carries the page file
\* `payload`: the try block (appendItems leaves acc), then finally.
nav_loadPageSuccess(n, page, payload) ==
  LET acc == AppendLoop([seenIds |-> n.seenIds, fragment |-> <<>>,
                         appended |-> 0], payload.items)
  IN nav_setLoading(
       nav_afterCursor(
         [nav_mergeFragment(n, acc)
            EXCEPT !.currentPage = ResolvedPage(JsonNumber(payload.page), page),
                   !.totalPages = payload.totalPages],
         acc.appended),
       FALSE)

\* loadPage(page) after a response that is not ok or an error: catch, then
\* finally.
nav_loadPageFailure(n) ==
  nav_setLoading(nav_setStatus(n, ErrorNotice, FALSE), FALSE)

\* The calls without call k, then those of `more`.
NavCalls(k, more) == RemoveAt(nav.calls, k) \o more

\* A click on the load-more button or an intersection of the sentinel.
NavTrigger ==
  /\ Len(nav.calls) < MaxNavCalls
  /\ \E r \in {nav_queueLoad(nav)} :
       nav' = [r.n EXCEPT !.calls = nav.calls \o r.calls]
  /\ lastOp' = [op |-> "queueLoad", mode |-> NoMode, shrunk |-> FALSE]
  /\ UNCHANGED <<serverVars, rebuilds, clientVars>>

\* The manifest fetch of call k gets its response, the manifest (ok) or an
\* error, and the call goes on to fetch its page.
NavManifestResponds(k, ok) ==
  /\ k \in 1..Len(nav.calls)
  /\ nav.calls[k].pc = "manifest"
  /\ \E r \in {nav_loadPageFetch(
                  nav_ensureManifestDone(nav, ok, NavManifest),
                  nav.calls[k].page)} :
       nav' = [r.n EXCEPT !.calls = NavCalls(k, r.calls)]
  /\ lastOp' = [op |-> "manifest", mode |-> NoMode, shrunk |-> FALSE]
  /\ UNCHANGED <<serverVars, rebuilds, clientVars>>

\* The page fetch of call k gets its page file.
NavPageSucceeds(k) ==
  /\ k \in 1..Len(nav.calls)
  /\ nav.calls[k].pc = "page"
  /\ nav.calls[k].url[2] <= feedManifests["recent"].totalPages
  /\ \E n \in {nav_loadPageSuccess(nav, nav.calls[k].page,
                                    NavPageFile(nav.calls[k].url))} :
       nav' = [n EXCEPT !.calls = NavCalls(k, <<>>)]
  /\ lastOp' = [op |-> "success", mode |-> NoMode, shrunk |-> FALSE]
  /\ UNCHANGED <<serverVars, rebuilds, clientVars>>

\* The page fetch of call k fails.
NavPageFails(k) ==
  /\ k \in 1..Len(nav.calls)
  /\ nav.calls[k].pc = "page"
  /\ \E n \in {nav_loadPageFailure(nav)} :
       nav' = [n EXCEPT !.calls = NavCalls(k, <<>>)]
  /\ lastOp' = [op |-> "failure", mode |-> NoMode, shrunk |-> FALSE]
  /\ UNCHANGED <<serverVars, rebuilds, clientVars>>

\* A build of the site on a session catalog, then a load of its home page.
InitNav ==
  \E items \in SessionCatalogs :
    \E w \in {writeFeedData(<<>>, <<>>, PrepareAll(items, FALSE))} :
      \E c \in {initFeed(w.feed)} :
        /\ InitWith(items, w, c)
        /\ nav = nav_init(SummaryOf(w.feed, "recent"))

NextNav ==
  \/ NavTrigger
  \/ \E k \in 1..Len(nav.calls) : \E ok \in BOOLEAN : NavManifestResponds(k, ok)
  \/ \E k \in 1..Len(nav.calls) : NavPageSucceeds(k)
  \/ \E k \in 1..Len(nav.calls) : NavPageFails(k)

SpecNav == InitNav /\ [][NextNav]_vars

\* The calls of loadPage that await the response to a page fetch.
NavPageFetches == {k \in 1..Len(nav.calls) : nav.calls[k].pc = "page"}

\* C30 (as claimed): the single-feed client has at most one page fetch in
\* flight at any time, also when a second trigger arrives while loadPage
\* awaits the manifest.
C30_OnePageFetchInFlight == Cardinality(NavPageFetches) <= 1

(***************************************************************************)
(* The builder alone: the catalog is edited and the site rebuilt, and each *)
(* build is followed by a fresh load of the home page it rendered, state   *)
(* scripts as written.                                                     *)
(***************************************************************************)
Range(s) == {s[i] : i \in 1..Len(s)}

\* The catalogs a build may find after `items`: the same catalog, or one
\* with a record added at the end, a record removed, or cut down to a prefix.
CatalogEdits(items) ==
  {items}
  \cup {Append(items, x) : x \in IF Len(items) < MaxItems
                            THEN BuildPool \ Range(items) ELSE {}}
  \cup {RemoveAt(items, i) : i \in 1..Len(items)}
  \cup {SubSeq(items, 1, k) : k \in 0..(Len(items) - 1)}

InitBuild ==
  \E w \in {writeFeedData(<<>>, <<>>, PrepareAll(<<>>, FALSE))} :
    \E c \in {loadHomePage(w.feed)} : InitWith(<<>>, w, c) /\ nav = NoNav

Build ==
  \E items \in CatalogEdits(catalog), ticks \in BOOLEAN :
   \E prepared \in {PrepareAll(items, ticks)} :
    \E w \in {writeFeedData(feedPages, feedManifests, prepared)} :
      \E c \in {loadHomePage(w.feed)} :
       /\ RunBuild(items, prepared, w)
       /\ SetController(c)
       /\ tabs' = TabsOf(w.feed)
       /\ inflight' = <<>>
       /\ lastOp' = [op |-> "build", mode |-> NoMode, shrunk |-> Shrunk(feedPages, feedManifests')]
       /\ UNCHANGED <<rebuilds, nav>>

NextBuild == Build

SpecBuild == InitBuild /\ [][NextBuild]_vars

(***************************************************************************)
(* Properties of the builder (specification SpecBuild).                    *)
(***************************************************************************)
\* k = ceil(n / d), stated without division.
IsCeil(k, n, d) == k >= 0 /\ k * d >= n /\ (k - 1) * d < n

\* The items of the page files 1..last of mode id, one page after the other.
RECURSIVE ConcatPages(_, _)
ConcatPages(id, last) ==
  IF last = 0 THEN <<>>
  ELSE ConcatPages(id, last - 1) \o feedPages[<<id, last>>].items

\* The product an entry was made from (catalog ids are unique).
RecordOf(entry) == CHOOSE x \in Range(products) : x.id = entry.id

\* Entries in the order of mode id: no entry is followed by one the
\* comparator puts before it.
InModeOrder(id, entries) ==
  \A i \in 1..(Len(entries) - 1) :
    Compare(id, RecordOf(entries[i]), RecordOf(entries[i + 1])) <= 0

\* A value that is neither absent nor blank.
Present(v) == Truthy(v) /\ ~Blank(v)

\* The positions of the catalog records that have title, url and image.
Qualifying ==
  {k \in 1..Len(catalog) : /\ Present(catalog[k].title)
                            /\ Present(catalog[k].url)
                            /\ Present(catalog[k].image)}

\* C7: for every mode, totalPages is ceil(filteredCount / pageSize), the
\* page files 1..totalPages exist, and their items one after the other are
\* the entries of the records with title, url and image, in the mode's
\* order, each exactly once.
C7_PagesPartitionSortedEntries ==
  \A id \in ModeIds :
    LET kept == FilterSeq(products)
        total == feedManifests[id].totalPages
    IN /\ Len(kept) = Cardinality(Qualifying)
       /\ {kept[k].id : k \in 1..Len(kept)}
            = {catalog[k].id : k \in Qualifying}
       /\ IsCeil(total, Len(kept), FEED_PAGE_SIZE)
       /\ \A n \in 1..total : <<id, n>> \in DOMAIN feedPages
       /\ LET all == ConcatPages(id, total)
          IN /\ Len(all) = Len(kept)
             /\ NoRepeat([k \in 1..Len(all) |-> all[k].id])
             /\ {all[k].id : k \in 1..Len(all)}
                  = {kept[k].id : k \in 1..Len(kept)}
             /\ InModeOrder(id, all)
             /\ all = MapFeedEntries(ModeSort(id, kept))

\* C7 witness: a build has written several pages, the last one partial, from
\* a catalog with a record the filter drops and on which the two orders
\* differ.
C7_Witness ==
  /\ lastOp.op = "build"
  /\ feedManifests["recent"].totalPages >= 2
  /\ feedManifests["recent"].totalItems % FEED_PAGE_SIZE # 0
  /\ Len(products) < Len(catalog)
  /\ ModeSort("recent", products) # ModeSort("trending", products)

\* C8: every manifest has totalPages = ceil(totalItems / pageSize) and that
\* many pointers, numbered 1, 2, ... without gap, each to a page file that
\* reports the manifest's totalPages, totalItems and pageSize; with no items
\* there are no pages.
C8_ManifestConsistent ==
  \A id \in DOMAIN feedManifests :
    LET m == feedManifests[id]
    IN /\ IsCeil(m.totalPages, m.totalItems, m.pageSize)
       /\ Len(m.pages) = m.totalPages
       /\ \A k \in 1..Len(m.pages) :
            /\ m.pages[k].page = k
            /\ m.pages[k].href = PageHref(id, k)
            /\ m.pages[k].href \in DOMAIN feedPages
            /\ feedPages[m.pages[k].href].page = k
            /\ feedPages[m.pages[k].href].totalPages = m.totalPages
            /\ feedPages[m.pages[k].href].totalItems = m.totalItems
            /\ feedPages[m.pages[k].href].pageSize = m.pageSize
       /\ m.totalItems = 0 => m.totalPages = 0 /\ m.pages = <<>>

\* C8 witness: a build has written a manifest of several pages whose last
\* page is partial.
C8_Witness ==
  /\ lastOp.op = "build"
  /\ \E id \in DOMAIN feedManifests :
       /\ feedManifests[id].totalPages >= 2
       /\ feedManifests[id].totalItems % feedManifests[id].pageSize # 0

\* C14: every page file holds between 1 and pageSize items, every page but
\* the last of its mode holds exactly pageSize, and the last one holds the
\* filtered count less (totalPages - 1) * pageSize.
C14_PageSizes ==
  \A path \in DOMAIN feedPages :
    LET page == feedPages[path]
        m == feedManifests[path[1]]
    IN /\ Len(page.items) >= 1
       /\ Len(page.items) <= m.pageSize
       /\ path[2] < m.totalPages => Len(page.items) = m.pageSize
       /\ path[2] = m.totalPages
            => Len(page.items)
                 = Cardinality(Qualifying) - (m.totalPages - 1) * m.pageSize

\* C14 witness: a build has written a full first page and a shorter last
\* page for a mode.
C14_Witness ==
  /\ lastOp.op = "build"
  /\ \E path \in DOMAIN feedPages :
       /\ path[2] >= 2
       /\ path[2] = feedManifests[path[1]].totalPages
       /\ Len(feedPages[path].items) < FEED_PAGE_SIZE
       /\ Len(feedPages[<<path[1], 1>>].items) = FEED_PAGE_SIZE

\* The ids of the items of a page file, in order.
ItemIds(page) == [k \in 1..Len(page.items) |-> page.items[k].id]

\* C15 (as claimed): a build from the catalog of the build before it writes
\* the same page files, with the same entries in the same order on each.
C15_RebuildSameOrder ==
  [][(Build /\ catalog' = catalog)
       => /\ DOMAIN feedPages' = DOMAIN feedPages
          /\ \A path \in DOMAIN feedPages :
               ItemIds(feedPages'[path]) = ItemIds(feedPages[path])]_vars

\* The input orders of a sequence of products.
Reorderings(s) ==
  IF s = <<>> THEN {<<>>}
  ELSE {[k \in 1..Len(s) |-> s[f[k]]] : f \in Permutations(1..Len(s))}

\* The ids of a sequence of products or entries, in order.
IdsOf(s) == [k \in 1..Len(s) |-> s[k].id]

\* C16 (as claimed): with unique ids, the entries of the pages of a mode, in
\* page order, are those the mode's sort gives for every input order of the
\* same products, and the comparator is 0 for no two distinct products.
C16_OrderIndependentOfInput ==
  NoRepeat(IdsOf(products)) =>
    \A id \in ModeIds :
      /\ \A other \in Reorderings(products) :
           IdsOf(ConcatPages(id, feedManifests[id].totalPages))
             = IdsOf(ModeSort(id, other))
      /\ \A i, j \in 1..Len(products) :
           i # j => Compare(id, products[i], products[j]) # 0

\* C17: the default mode a build returns is the first mode, in the order of
\* FEED_MODES, with totalItems > 0, and the first mode when every mode has
\* totalItems 0.
C17_DefaultIsFirstNonEmpty ==
  /\ \A k \in 1..Len(FEED_MODES) : feed.modes[k].id = FEED_MODES[k]
  /\ \E k \in 1..Len(feed.modes) :
       /\ feed.defaultMode = feed.modes[k].id
       /\ \/ /\ feed.modes[k].totalItems > 0
             /\ \A j \in 1..(k - 1) : feed.modes[j].totalItems = 0
          \/ /\ k = 1
             /\ \A j \in 1..Len(feed.modes) : feed.modes[j].totalItems = 0

\* C17 witness: a build of a catalog with products has returned its default
\* mode.
C17_Witness ==
  /\ lastOp.op = "build"
  /\ feed.defaultMode = FEED_MODES[1]
  /\ feedManifests[feed.defaultMode].totalItems > 0
  /\ Len(products) < Len(catalog)

\* C18: every entry of every page file has a title, a url and an image that
\* are neither absent nor blank; a catalog record that lacks one of the three
\* is on no page and is not counted in totalItems.
C18_EntriesHaveRequiredFields ==
  /\ \A path \in DOMAIN feedPages :
       \A k \in 1..Len(feedPages[path].items) :
         /\ Present(feedPages[path].items[k].title)
         /\ Present(feedPages[path].items[k].url)
         /\ Present(feedPages[path].items[k].image)
         /\ \E q \in Qualifying :
              catalog[q].id = feedPages[path].items[k].id
  /\ \A id \in DOMAIN feedManifests :
       feedManifests[id].totalItems = Cardinality(Qualifying)

\* C18 witness: a build has written pages from a catalog that holds a record
\* with a blank title and a record without image.
C18_Witness ==
  /\ lastOp.op = "build"
  /\ feedPages # <<>>
  /\ \E k \in 1..Len(catalog) : catalog[k].title = " "
  /\ \E k \in 1..Len(catalog) : catalog[k].image = NoKey

\* C29 (as claimed): for every mode of a build, the state the home page
\* embeds has currentPage 1 when the mode has items and 0 when it has none,
\* and the location of page 2 as nextPage exactly when totalPages is above
\* 1; and the controller loaded from that page holds the mode, done exactly
\* when totalPages is at most 1, and otherwise requests page 2 with its
\* first fetch.
C29_BuilderClientAgree ==
  \A k \in 1..Len(feed.modes) :
    \E s \in {feed.modes[k]} :
      /\ ConfigPayload(s).currentPage = IF s.totalItems > 0 THEN 1 ELSE 0
      /\ ConfigPayload(s).nextPage
           = IF s.totalPages > 1 THEN PageHref(s.baseHref, 2) ELSE NoUrl
      /\ s.id \in DOMAIN modes
      /\ modes[s.id].done <=> s.totalPages <= 1
      /\ s.totalPages > 1
           => \E r \in {queueLoad(activateMode(Controller, s.id))} :
                /\ Len(r.requests) = 1
                /\ r.requests[1].pageNumber = 2
                /\ r.requests[1].url = PageHref(s.baseHref, 2)

\* C9: the page files that exist are exactly pages 1..totalPages of each
\* mode of the latest build.
C9_NoOrphanPages ==
  DOMAIN feedPages =
    UNION {{<<feed.modes[k].id, n>> : n \in 1..feed.modes[k].totalPages} :
             k \in 1..Len(feed.modes)}

\* C9 witness: the latest build found page files of the build before it
\* numbered above its own totalPages.
C9_Witness ==
  /\ lastOp.op = "build"
  /\ lastOp.shrunk

====
